---- MODULE Spec2Model ----
(***************************************************************************)
(* PostdataPoem (src/pd_poem.py): per-instance memoization of metadata,    *)
(* the analysis aggregation get_analysis() and the stanza grouping engine  *)
(* __group_feature_by_stanzas.                                             *)
(*                                                                         *)
(* Python values are represented as follows.                               *)
(*   None            the empty tuple <<>>                                  *)
(*   an object x that may be None    Some(x) = <<x>>                       *)
(*   a str whose characters matter   a tuple of one-character strings      *)
(*   a value of the grouping engine  PyInt(n) or PyStr(chars)              *)
(*   an exception                    its message (exc field of a result)   *)
(***************************************************************************)
EXTENDS Integers, Sequences, FiniteSets, TLC

\* ------------------------------------------------------------------ bounds
\* rows a title / creation year / author / scansion query may return
MaxRows == 2
\* rows handed to the grouping engine in GroupSpec
MaxGroupRows == 3
\* characters of a URI handed to the constructor in ConstructSpec
MaxUriLen == 5

\* ------------------------------------------------------------ Python values
None == <<>>
Some(x) == <<x>>

PyInt(n) == [t |-> "int", n |-> n, s |-> <<>>]
PyStr(chars) == [t |-> "str", n |-> 0, s |-> chars]

\* truthiness of an optional str (None and "" are falsy)
TruthyStr(o) == o # None /\ o[1] # ""
\* truthiness of an optional list or dict (None and the empty one are falsy)
TruthyList(o) == o # None /\ o[1] # <<>>
TruthyDict(o) == o # None /\ DOMAIN o[1] # {}

SeqsUpTo(S, n) == UNION {[1..k -> S] : k \in 0..n}

\* ------------------------------------------------------------------ errors
NoExc == "none"
NoDatabaseConnection == "Database Connection not available."
MissingURI == "No URI of the poem specified. Can not get any attributes."
MultipleTitles == "Poem has multiple titles. Not implemented."
MultipleYears == "Multiple values for creation year. Not implemented."
InvalidSyllableType == "Syllable Type is not valid."
\* list index out of range: results.simplify()[0] on zero rows
IndexError == "IndexError"
\* int() of a str that is no decimal number
ValueError == "ValueError"
\* failure of the execution adapter (ConnectionError / QueryError), propagated
QueryError == "QueryError"

\* --------------------------------------------------------------- str helpers
Digits == {"0", "1", "2", "3", "4", "5", "6", "7", "8", "9"}

DigitVal(c) ==
    CASE c = "0" -> 0 [] c = "1" -> 1 [] c = "2" -> 2 [] c = "3" -> 3
      [] c = "4" -> 4 [] c = "5" -> 5 [] c = "6" -> 6 [] c = "7" -> 7
      [] c = "8" -> 8 [] c = "9" -> 9

\* whether int(chars) succeeds
IsDecimal(chars) == Len(chars) > 0 /\ \A i \in 1..Len(chars) : chars[i] \in Digits

RECURSIVE ParseInt(_)
ParseInt(chars) ==
    IF chars = <<>> THEN 0
    ELSE 10 * ParseInt(SubSeq(chars, 1, Len(chars) - 1)) + DigitVal(chars[Len(chars)])

\* Python int(x) for x an int or a decimal str
int(x) == IF x.t = "int" THEN x.n ELSE ParseInt(x.s)
\* whether int(x) raises ValueError
IntRaises(x) == x.t = "str" /\ ~IsDecimal(x.s)

\* Python str.split(sep) for a one-character separator
RECURSIVE split(_, _)
split(s, sep) ==
    IF \A i \in 1..Len(s) : s[i] # sep THEN <<s>>
    ELSE LET i == CHOOSE k \in 1..Len(s) : s[k] = sep /\ \A j \in 1..(k - 1) : s[j] # sep
         IN  <<SubSeq(s, 1, i - 1)>> \o split(SubSeq(s, i + 1, Len(s)), sep)

\* Python sep.join(parts)
RECURSIVE join(_, _)
join(parts, sep) ==
    IF parts = <<>> THEN <<>>
    ELSE IF Len(parts) = 1 THEN parts[1]
    ELSE parts[1] \o <<sep>> \o join(Tail(parts), sep)

DigitChar(d) ==
    CASE d = 0 -> "0" [] d = 1 -> "1" [] d = 2 -> "2" [] d = 3 -> "3"
      [] d = 4 -> "4" [] d = 5 -> "5" [] d = 6 -> "6" [] d = 7 -> "7"
      [] d = 8 -> "8" [] d = 9 -> "9"

RECURSIVE Decimal(_)
Decimal(n) == IF n < 10 THEN <<DigitChar(n)>> ELSE Decimal(n \div 10) \o <<DigitChar(n % 10)>>

\* Python str(x): a str passes through unchanged, an int is written in decimal
str(x) == IF x.t = "str" THEN x ELSE PyStr(Decimal(x.n))

\* cast_value with the bug that only the flag "int" asks for an integer
cast_value_int_only(raw, value_datatype) ==
    IF value_datatype = "int" THEN PyInt(int(raw))
    ELSE IF value_datatype = "str" \/ value_datatype = "String" THEN str(raw)
    ELSE raw

\* --------------------------------------------------- stanza grouping engine
\* the value of one binding, cast as value_datatype asks (lines 374-379)
cast_value(raw, value_datatype) ==
    IF value_datatype = "int" \/ value_datatype = "Integer" THEN PyInt(int(raw))
    ELSE IF value_datatype = "str" \/ value_datatype = "String" THEN str(raw)
    ELSE raw

\* whether the cast of line 375 raises ValueError
cast_raises(raw, value_datatype) ==
    (value_datatype = "int" \/ value_datatype = "Integer") /\ IntRaises(raw)

\* the loop variables before the first iteration (lines 366-368)
group_start == [grouped_results |-> <<>>, stanza |-> <<>>, current_stanza |-> PyInt(0), exc |-> NoExc]

\* group_iteration with the bug that a row opening a stanza is not put into it
group_iteration_dropping(st, binding, stanza_number_field_key, value_field_key, value_datatype) ==
    LET stanza_number == binding[stanza_number_field_key]
        raw == binding[value_field_key]
        value == cast_value(raw, value_datatype)
    IN  IF st.exc # NoExc THEN st
        ELSE IF cast_raises(raw, value_datatype) THEN [st EXCEPT !.exc = ValueError]
        ELSE IF st.current_stanza = stanza_number
             THEN [st EXCEPT !.stanza = Append(@, value)]
        ELSE IF IntRaises(st.current_stanza) THEN [st EXCEPT !.exc = ValueError]
        ELSE [grouped_results |-> IF int(st.current_stanza) > 0
                                  THEN Append(st.grouped_results, st.stanza)
                                  ELSE st.grouped_results,
              stanza |-> <<>>,
              current_stanza |-> stanza_number,
              exc |-> NoExc]

\* group_iteration with the bug that a stanza is never told from the one before
group_iteration_merging(st, binding, stanza_number_field_key, value_field_key, value_datatype) ==
    LET raw == binding[value_field_key]
        value == cast_value(raw, value_datatype)
    IN  IF st.exc # NoExc THEN st
        ELSE IF cast_raises(raw, value_datatype) THEN [st EXCEPT !.exc = ValueError]
        ELSE [st EXCEPT !.stanza = Append(@, value)]

\* group_iteration with the bug that a change of the value, too, opens a new stanza
group_iteration_by_value(st, binding, stanza_number_field_key, value_field_key, value_datatype) ==
    LET stanza_number == binding[stanza_number_field_key]
        raw == binding[value_field_key]
        value == cast_value(raw, value_datatype)
    IN  IF st.exc # NoExc THEN st
        ELSE IF cast_raises(raw, value_datatype) THEN [st EXCEPT !.exc = ValueError]
        ELSE IF st.current_stanza = stanza_number /\ st.stanza[Len(st.stanza)] = value
             THEN [st EXCEPT !.stanza = Append(@, value)]
        ELSE IF IntRaises(st.current_stanza) THEN [st EXCEPT !.exc = ValueError]
        ELSE [grouped_results |-> IF int(st.current_stanza) > 0
                                  THEN Append(st.grouped_results, st.stanza)
                                  ELSE st.grouped_results,
              stanza |-> <<value>>,
              current_stanza |-> stanza_number,
              exc |-> NoExc]

\* one iteration of the for loop (lines 370-396); an exception ends the loop
group_iteration(st, binding, stanza_number_field_key, value_field_key, value_datatype) ==
    LET stanza_number == binding[stanza_number_field_key]
        raw == binding[value_field_key]
        value == cast_value(raw, value_datatype)
    IN  IF st.exc # NoExc THEN st
        ELSE IF cast_raises(raw, value_datatype) THEN [st EXCEPT !.exc = ValueError]
        ELSE IF st.current_stanza = stanza_number
             THEN [st EXCEPT !.stanza = Append(@, value)]
        ELSE IF IntRaises(st.current_stanza) THEN [st EXCEPT !.exc = ValueError]
        ELSE [grouped_results |-> IF int(st.current_stanza) > 0
                                  THEN Append(st.grouped_results, st.stanza)
                                  ELSE st.grouped_results,
              stanza |-> <<value>>,
              current_stanza |-> stanza_number,
              exc |-> NoExc]

\* the for loop over the rows; nxt is the loop variables after the first of them
RECURSIVE group_loop(_, _, _, _, _)
group_loop(st, rows, stanza_number_field_key, value_field_key, value_datatype) ==
    IF rows = <<>> THEN st
    ELSE CHOOSE out \in
            { group_loop(nxt, Tail(rows), stanza_number_field_key, value_field_key, value_datatype) :
                nxt \in {group_iteration(st, Head(rows), stanza_number_field_key,
                                         value_field_key, value_datatype)} } : TRUE

\* group_feature_by_stanzas with the bug that the last stanza is appended only when
\* it holds a value
group_feature_by_stanzas_nonempty(simplified_sparql_results, stanza_number_field_key, value_field_key, value_datatype) ==
    LET st == group_loop(group_start, simplified_sparql_results, stanza_number_field_key,
                         value_field_key, value_datatype)
    IN  IF st.exc # NoExc THEN [exc |-> st.exc, value |-> None]
        ELSE [exc |-> NoExc,
              value |-> Some(IF st.stanza = <<>> THEN st.grouped_results
                             ELSE Append(st.grouped_results, st.stanza))]

\* __group_feature_by_stanzas: [exc, value], value the list of stanzas
group_feature_by_stanzas(simplified_sparql_results, stanza_number_field_key, value_field_key, value_datatype) ==
    LET st == group_loop(group_start, simplified_sparql_results, stanza_number_field_key,
                         value_field_key, value_datatype)
    IN  IF st.exc # NoExc THEN [exc |-> st.exc, value |-> None]
        ELSE [exc |-> NoExc, value |-> Some(Append(st.grouped_results, st.stanza))]

\* ------------------------------------------------ collaborators (not in src/)
\* util.shorthash: the 8-character truncated md5 hash of the URI, a fixed function
\* of the URI about which nothing else is used
shorthash(u) == [md5_8 |-> u]

\* SparqlResults.simplify(mapping): rows with exactly one field become that field's
\* value, the fields named in int_fields are cast to int; order and length are kept
simplify(rows, int_fields) ==
    [i \in 1..Len(rows) |->
        LET r == [f \in DOMAIN rows[i] |->
                     IF f \in int_fields THEN PyInt(int(rows[i][f])) ELSE rows[i][f]]
        IN  IF Cardinality(DOMAIN r) = 1 THEN r[CHOOSE f \in DOMAIN r : TRUE] ELSE r]

\* PostdataAuthor(uri, database): the author entity, known by its constructor arguments
PostdataAuthor(u, db) == [uri |-> u, database |-> db]

\* what the execution adapter answers to one execute(): it fails, or it returns rows
Failed == [fail |-> TRUE, rows |-> <<>>]
Rows(rs) == [fail |-> FALSE, rows |-> rs]

\* one query bound (inject) and handed to the adapter (execute), with its answer
Executed(query, params, resp) == [query |-> query, params |-> params, answer |-> resp]

\* ------------------------------------------------------------ PostdataPoem
\* the outcome of a method call: the exception raised (or NoExc), the value
\* returned, the queries it executed in order, and the instance afterwards
Return(self, v, qs) == [exc |-> NoExc, value |-> Some(v), queries |-> qs, self |-> self]
Raise(self, e, qs) == [exc |-> e, value |-> None, queries |-> qs, self |-> self]

\* __split_uri_in_author_poem_parts (called with a URI set); IndexError when the
\* URI has fewer than three "_"-separated segments
split_uri_raises(u) == Len(split(u, "_")) < 3
split_uri_in_author_poem_parts(u) == <<split(u, "_")[2], split(u, "_")[3]>>

\* __generate_name_by_uri with the bug that the first two segments are joined
generate_name_by_uri_from_prefix(u) == join(<<split(u, "_")[1], split(u, "_")[2]>>, "_")

\* __generate_name_by_uri
generate_name_by_uri(u) == join(split_uri_in_author_poem_parts(u), "_")

\* __init__: the instance after construction; the fields not assigned keep the
\* class defaults (None)
PoemInit(u, db) ==
    [uri |-> u,
     database |-> db,
     id |-> IF u # None THEN Some(shorthash(u)) ELSE None,
     name |-> IF u # None THEN Some(generate_name_by_uri(u)) ELSE None,
     title |-> None,
     creation_year |-> None,
     poetry_lab_url |-> None,
     author_uris |-> None,
     authors |-> None,
     automatic_analysis |-> None]

\* PostdataPoem(uri, database): the constructor raises IndexError when the URI has
\* fewer than three "_"-separated segments, and returns the instance otherwise
construct(u, db) ==
    IF u # None /\ split_uri_raises(u) THEN [exc |-> IndexError, self |-> None]
    ELSE [exc |-> NoExc, self |-> Some(PoemInit(u, db))]

\* get_title with the bug that the name is made anew from the author part and the
\* title once the title is known
get_title_renaming(self, resp) ==
    IF TruthyStr(self.title) THEN Return(self, self.title, <<>>)
    ELSE IF self.database = None THEN Raise(self, NoDatabaseConnection, <<>>)
    ELSE IF self.uri = None THEN Raise(self, MissingURI, <<>>)
    ELSE LET q == <<Executed("PoemTitle", <<self.uri>>, resp)>>
             title_list == simplify(resp.rows, {})
         IN  IF resp.fail THEN Raise(self, QueryError, q)
             ELSE IF Len(title_list) = 1
                  THEN Return([self EXCEPT !.title = Some(title_list[1]),
                                           !.name = Some(split(self.uri, "_")[2]
                                                         \o <<"_", title_list[1]>>)],
                              Some(title_list[1]), q)
             ELSE Raise(self, MultipleTitles, q)

get_title(self, resp) ==
    IF TruthyStr(self.title) THEN Return(self, self.title, <<>>)
    ELSE IF self.database = None THEN Raise(self, NoDatabaseConnection, <<>>)
    ELSE IF self.uri = None THEN Raise(self, MissingURI, <<>>)
    ELSE LET q == <<Executed("PoemTitle", <<self.uri>>, resp)>>
             title_list == simplify(resp.rows, {})
         IN  IF resp.fail THEN Raise(self, QueryError, q)
             ELSE IF Len(title_list) = 1
                  THEN Return([self EXCEPT !.title = Some(title_list[1])], Some(title_list[1]), q)
             ELSE Raise(self, MultipleTitles, q)

\* get_creation_year with the bug its docstring describes: of several values the
\* first is returned
get_creation_year_first(self, resp) ==
    IF TruthyStr(self.creation_year) THEN Return(self, self.creation_year, <<>>)
    ELSE IF self.database = None THEN Raise(self, NoDatabaseConnection, <<>>)
    ELSE IF self.uri = None THEN Raise(self, MissingURI, <<>>)
    ELSE LET q == <<Executed("PoemCreationYear", <<self.uri>>, resp)>>
             data == simplify(resp.rows, {})
         IN  IF resp.fail THEN Raise(self, QueryError, q)
             ELSE IF Len(data) = 0
                  THEN Return([self EXCEPT !.creation_year = None], None, q)
             ELSE Return([self EXCEPT !.creation_year = Some(data[1])], Some(data[1]), q)

get_creation_year(self, resp) ==
    IF TruthyStr(self.creation_year) THEN Return(self, self.creation_year, <<>>)
    ELSE IF self.database = None THEN Raise(self, NoDatabaseConnection, <<>>)
    ELSE IF self.uri = None THEN Raise(self, MissingURI, <<>>)
    ELSE LET q == <<Executed("PoemCreationYear", <<self.uri>>, resp)>>
             data == simplify(resp.rows, {})
         IN  IF resp.fail THEN Raise(self, QueryError, q)
             ELSE IF Len(data) = 0
                  THEN Return([self EXCEPT !.creation_year = None], None, q)
             ELSE IF Len(data) = 1
                  THEN Return([self EXCEPT !.creation_year = Some(data[1])], Some(data[1]), q)
             ELSE Raise(self, MultipleYears, q)

\* get_author_uris with the bug that the stored URIs are not looked at
get_author_uris_requerying(self, resp) ==
    IF self.database = None THEN Raise(self, NoDatabaseConnection, <<>>)
    ELSE IF self.uri = None THEN Raise(self, MissingURI, <<>>)
    ELSE LET q == <<Executed("PoemAuthorUris", <<self.uri>>, resp)>>
             data == simplify(resp.rows, {})
         IN  IF resp.fail THEN Raise(self, QueryError, q)
             ELSE IF Len(data) = 0
                  THEN Return([self EXCEPT !.author_uris = None], None, q)
             ELSE Return([self EXCEPT !.author_uris = Some(data)], Some(data), q)

get_author_uris(self, resp) ==
    IF TruthyList(self.author_uris) THEN Return(self, self.author_uris, <<>>)
    ELSE IF self.database = None THEN Raise(self, NoDatabaseConnection, <<>>)
    ELSE IF self.uri = None THEN Raise(self, MissingURI, <<>>)
    ELSE LET q == <<Executed("PoemAuthorUris", <<self.uri>>, resp)>>
             data == simplify(resp.rows, {})
         IN  IF resp.fail THEN Raise(self, QueryError, q)
             ELSE IF Len(data) = 0
                  THEN Return([self EXCEPT !.author_uris = None], None, q)
             ELSE Return([self EXCEPT !.author_uris = Some(data)], Some(data), q)

\* load_authors with the bug that only the first author is constructed
load_authors_first_only(self, resp) ==
    LET r == IF TruthyList(self.author_uris) THEN Return(self, self.author_uris, <<>>)
             ELSE get_author_uris(self, resp)
        s1 == r.self
    IN  IF r.exc # NoExc THEN r
        ELSE IF TruthyList(s1.author_uris)
             THEN Return([s1 EXCEPT !.authors =
                              Some(<<PostdataAuthor(s1.author_uris[1][1], s1.database)>>)],
                         TRUE, r.queries)
        ELSE Return([s1 EXCEPT !.authors = None], FALSE, r.queries)

load_authors(self, resp) ==
    LET r == IF TruthyList(self.author_uris) THEN Return(self, self.author_uris, <<>>)
             ELSE get_author_uris(self, resp)
        s1 == r.self
    IN  IF r.exc # NoExc THEN r
        ELSE IF TruthyList(s1.author_uris)
             THEN Return([s1 EXCEPT !.authors =
                              Some([i \in 1..Len(s1.author_uris[1]) |->
                                       PostdataAuthor(s1.author_uris[1][i], s1.database)])],
                         TRUE, r.queries)
        ELSE Return([s1 EXCEPT !.authors = None], FALSE, r.queries)

\* __execute_sparql_query with the bug that the URI is checked before the database
execute_sparql_query_uri_first(self, sparql_query, resp) ==
    IF self.uri = None THEN Raise(self, MissingURI, <<>>)
    ELSE IF self.database = None THEN Raise(self, NoDatabaseConnection, <<>>)
    ELSE IF resp.fail THEN Raise(self, QueryError, <<Executed(sparql_query, <<self.uri>>, resp)>>)
    ELSE Return(self, resp.rows, <<Executed(sparql_query, <<self.uri>>, resp)>>)

\* __execute_sparql_query: the rows of the answer (SparqlResults)
execute_sparql_query(self, sparql_query, resp) ==
    IF self.database = None THEN Raise(self, NoDatabaseConnection, <<>>)
    ELSE IF self.uri = None THEN Raise(self, MissingURI, <<>>)
    ELSE IF resp.fail THEN Raise(self, QueryError, <<Executed(sparql_query, <<self.uri>>, resp)>>)
    ELSE Return(self, resp.rows, <<Executed(sparql_query, <<self.uri>>, resp)>>)

\* lst[0] of a call outcome r whose list is lst: IndexError on the empty list
first_of(r, lst) ==
    IF lst = <<>> THEN Raise(r.self, IndexError, r.queries)
    ELSE Return(r.self, lst[1], r.queries)

\* get_automatic_scansion_uri with the bug that several URIs are refused, as the
\* other single-valued accessors refuse several values
get_automatic_scansion_uri_strict(self, resp) ==
    LET r == execute_sparql_query(self, "PoemAutomaticScansionUri", resp)
    IN  IF r.exc # NoExc THEN r
        ELSE IF Len(r.value[1]) > 1 THEN Raise(self, MultipleYears, r.queries)
        ELSE first_of(r, simplify(r.value[1], {}))

get_automatic_scansion_uri(self, resp) ==
    LET r == execute_sparql_query(self, "PoemAutomaticScansionUri", resp)
    IN  IF r.exc # NoExc THEN r ELSE first_of(r, simplify(r.value[1], {}))

get_number_of_stanzas(self, resp) ==
    LET r == execute_sparql_query(self, "PoemCountStanzas", resp)
    IN  IF r.exc # NoExc THEN r ELSE first_of(r, simplify(r.value[1], {"count"}))

get_number_of_lines(self, resp) ==
    LET r == execute_sparql_query(self, "PoemCountLines", resp)
    IN  IF r.exc # NoExc THEN r ELSE first_of(r, simplify(r.value[1], {"count"}))

get_number_of_words(self, resp) ==
    LET r == execute_sparql_query(self, "PoemCountWords", resp)
    IN  IF r.exc # NoExc THEN r ELSE first_of(r, simplify(r.value[1], {"count"}))

\* the predicate a syllable type selects (lines 472-475 and 532-535)
syllable_type_prop(syllable_type) ==
    IF syllable_type = "metrical" THEN <<"pdp:hasMetricalSyllable">>
    ELSE <<"pdp:hasGrammaticalSyllable">>

\* execute_syllable_query with the bug that the syllable type is looked at only
\* after the database and the URI
execute_syllable_query_type_last(self, query, syllable_type, resp) ==
    LET q == <<Executed(query, <<self.uri, syllable_type_prop(syllable_type)>>, resp)>>
    IN  IF self.database = None THEN Raise(self, NoDatabaseConnection, <<>>)
        ELSE IF self.uri = None THEN Raise(self, MissingURI, <<>>)
        ELSE IF syllable_type # "metrical" /\ syllable_type # "grammatical"
        THEN Raise(self, InvalidSyllableType, <<>>)
        ELSE IF resp.fail THEN Raise(self, QueryError, q)
        ELSE Return(self, resp.rows, q)

\* the query of the two syllable accessors: bound with the URI and the predicate
execute_syllable_query(self, query, syllable_type, resp) ==
    LET q == <<Executed(query, <<self.uri, syllable_type_prop(syllable_type)>>, resp)>>
    IN  IF syllable_type # "metrical" /\ syllable_type # "grammatical"
        THEN Raise(self, InvalidSyllableType, <<>>)
        ELSE IF self.database = None THEN Raise(self, NoDatabaseConnection, <<>>)
        ELSE IF self.uri = None THEN Raise(self, MissingURI, <<>>)
        ELSE IF resp.fail THEN Raise(self, QueryError, q)
        ELSE Return(self, resp.rows, q)

get_number_of_syllables(self, syllable_type, resp) ==
    LET r == execute_syllable_query(self, "PoemCountSyllables", syllable_type, resp)
    IN  IF r.exc # NoExc THEN r ELSE first_of(r, simplify(r.value[1], {"count"}))

get_number_of_lines_in_stanzas(self, resp) ==
    LET r == execute_sparql_query(self, "PoemCountLinesInStanzas", resp)
    IN  IF r.exc # NoExc THEN r ELSE Return(self, simplify(r.value[1], {"count"}), r.queries)

get_rhyme_schemes_of_stanzas(self, resp) ==
    LET r == execute_sparql_query(self, "PoemRhymeSchemesOfStanzas", resp)
    IN  IF r.exc # NoExc THEN r ELSE Return(self, simplify(r.value[1], {}), r.queries)

\* the grouping of the rows of a call outcome r (lines 550-557, 579-586, 607-614, 635-642)
grouped(r, stanza_number_field_key, value_field_key, value_datatype) ==
    LET g == group_feature_by_stanzas(simplify(r.value[1], {}), stanza_number_field_key,
                                      value_field_key, value_datatype)
    IN  IF g.exc # NoExc THEN Raise(r.self, g.exc, r.queries)
        ELSE Return(r.self, g.value[1], r.queries)

get_number_of_syllables_in_stanzas(self, syllable_type, resp) ==
    LET r == execute_syllable_query(self, "PoemCountSyllablesInStanzas", syllable_type, resp)
    IN  IF r.exc # NoExc THEN r ELSE grouped(r, "StanzaNo", "count", "int")

\* the database and URI checks written out in the three accessors below
\* (lines 568-576, 596-604, 624-632) are those of __execute_sparql_query
get_number_of_words_in_stanzas(self, resp) ==
    LET r == execute_sparql_query(self, "PoemCountWordsInStanzas", resp)
    IN  IF r.exc # NoExc THEN r ELSE grouped(r, "StanzaNo", "count", "int")

get_grammatical_stress_patterns_in_stanzas(self, resp) ==
    LET r == execute_sparql_query(self, "PoemGrammaticalStressPatternsInStanzas", resp)
    IN  IF r.exc # NoExc THEN r ELSE grouped(r, "StanzaNumber", "grammaticalStressPattern", "str")

get_metrical_patterns_in_stanzas(self, resp) ==
    LET r == execute_sparql_query(self, "PoemMetricalPatternsInStanzas", resp)
    IN  IF r.exc # NoExc THEN r ELSE grouped(r, "StanzaNumber", "metricalPattern", "str")

\* the keys of the analysis record, in the order their values are computed
AnalysisKeys ==
    <<"source", "numOfStanzas", "numOfLines", "numOfWords", "numOfLinesInStanzas",
      "rhymeSchemesOfStanzas", "numOfMetricalSyllables", "numOfGrammaticalSyllables",
      "numOfMetricalSyllablesInStanzas", "numOfGrammaticalSyllablesInStanzas",
      "numOfWordsInStanzas", "grammaticalStressPatternsInStanzas",
      "metricalPatternsInStanzas">>

\* the i-th sub-step of get_analysis (lines 687-704), resp the store's answer to its query
analysis_step(self, i, resp) ==
    CASE i = 1 -> get_automatic_scansion_uri(self, resp)
      [] i = 2 -> get_number_of_stanzas(self, resp)
      [] i = 3 -> get_number_of_lines(self, resp)
      [] i = 4 -> get_number_of_words(self, resp)
      [] i = 5 -> get_number_of_lines_in_stanzas(self, resp)
      [] i = 6 -> get_rhyme_schemes_of_stanzas(self, resp)
      [] i = 7 -> get_number_of_syllables(self, "metrical", resp)
      [] i = 8 -> get_number_of_syllables(self, "grammatical", resp)
      [] i = 9 -> get_number_of_syllables_in_stanzas(self, "metrical", resp)
      [] i = 10 -> get_number_of_syllables_in_stanzas(self, "grammatical", resp)
      [] i = 11 -> get_number_of_words_in_stanzas(self, resp)
      [] i = 12 -> get_grammatical_stress_patterns_in_stanzas(self, resp)
      [] i = 13 -> get_metrical_patterns_in_stanzas(self, resp)

\* the value stored under the i-th key: the scansion URI is wrapped in dict(uri=...)
analysis_value(i, v) == IF i = 1 THEN [uri |-> v] ELSE v

\* the outcome of each sub-step; a sub-step reads the instance and changes nothing,
\* so its outcome depends on its own answer alone
analysis_steps(self, resps) == [i \in 1..Len(AnalysisKeys) |-> analysis_step(self, i, resps[i])]

\* the sub-steps are evaluated in order and the first exception ends the evaluation:
\* the last sub-step evaluated
analysis_last(steps) ==
    IF \E i \in DOMAIN steps : steps[i].exc # NoExc
    THEN CHOOSE i \in DOMAIN steps :
            steps[i].exc # NoExc /\ \A j \in 1..(i - 1) : steps[j].exc = NoExc
    ELSE Len(steps)

\* the queries executed by the sub-steps 1..n
RECURSIVE analysis_queries(_, _)
analysis_queries(steps, n) ==
    IF n = 0 THEN <<>> ELSE analysis_queries(steps, n - 1) \o steps[n].queries

\* the values of the sub-steps 1..n under their keys
analysis_fields(steps, n) ==
    [key \in {AnalysisKeys[i] : i \in 1..n} |->
        LET i == CHOOSE j \in 1..n : AnalysisKeys[j] = key
        IN  analysis_value(i, steps[i].value[1])]

\* get_analysis with the bug that the cached record is not looked at
get_analysis_uncached(self, resps) ==
    LET steps == analysis_steps(self, resps)
        n == analysis_last(steps)
    IN  IF steps[n].exc # NoExc
        THEN Raise(self, steps[n].exc, analysis_queries(steps, n))
        ELSE Return([self EXCEPT !.automatic_analysis = Some(analysis_fields(steps, n))],
                    analysis_fields(steps, n), analysis_queries(steps, n))

\* get_analysis with the bug that the record is filled key by key on the instance,
\* so that an exception leaves the keys computed before it
get_analysis_partial(self, resps) ==
    IF TruthyDict(self.automatic_analysis) THEN Return(self, self.automatic_analysis[1], <<>>)
    ELSE LET steps == analysis_steps(self, resps)
             n == analysis_last(steps)
         IN  IF steps[n].exc # NoExc
             THEN Raise([self EXCEPT !.automatic_analysis = Some(analysis_fields(steps, n - 1))],
                        steps[n].exc, analysis_queries(steps, n))
             ELSE Return([self EXCEPT !.automatic_analysis = Some(analysis_fields(steps, n))],
                         analysis_fields(steps, n), analysis_queries(steps, n))

\* get_analysis with the bug that a query that raised is executed once more
get_analysis_retrying(self, resps) ==
    IF TruthyDict(self.automatic_analysis) THEN Return(self, self.automatic_analysis[1], <<>>)
    ELSE LET steps == analysis_steps(self, resps)
             n == analysis_last(steps)
         IN  IF steps[n].exc # NoExc
             THEN Raise(self, steps[n].exc, analysis_queries(steps, n) \o steps[n].queries)
             ELSE Return([self EXCEPT !.automatic_analysis = Some(analysis_fields(steps, n))],
                         analysis_fields(steps, n), analysis_queries(steps, n))

get_analysis(self, resps) ==
    IF TruthyDict(self.automatic_analysis) THEN Return(self, self.automatic_analysis[1], <<>>)
    ELSE LET steps == analysis_steps(self, resps)
             n == analysis_last(steps)
         IN  IF steps[n].exc # NoExc
             THEN Raise(self, steps[n].exc, analysis_queries(steps, n))
             ELSE Return([self EXCEPT !.automatic_analysis = Some(analysis_fields(steps, n))],
                         analysis_fields(steps, n), analysis_queries(steps, n))

\* truthiness of an optional str kept as a tuple of characters
TruthyChars(o) == o # None /\ o[1] # <<>>

\* __split_uri_in_author_poem_parts without a URI
UndefinedURI == "URI of the poem has not been defined."

\* the default arguments of get_poetry_lab_url
DefaultBaseUrl == <<"http://poetry.linhd.uned.es:3000">>
DefaultLang == <<"en">>

\* f"{base_url}/{lang}/author/{author_part}/poetic-work/{poem_part}"
poetry_lab_url_of(base_url, lang, author_poem) ==
    base_url \o <<"/">> \o lang \o <<"/author/">> \o author_poem[1]
             \o <<"/poetic-work/">> \o author_poem[2]

\* get_poetry_lab_url with the bug that the URL is built anew at every call
get_poetry_lab_url_unmemoized(self, base_url, lang) ==
    IF self.uri = None THEN Raise(self, UndefinedURI, <<>>)
    ELSE IF split_uri_raises(self.uri) THEN Raise(self, IndexError, <<>>)
    ELSE Return([self EXCEPT !.poetry_lab_url =
                     Some(poetry_lab_url_of(base_url, lang, split_uri_in_author_poem_parts(self.uri)))],
                poetry_lab_url_of(base_url, lang, split_uri_in_author_poem_parts(self.uri)), <<>>)

get_poetry_lab_url(self, base_url, lang) ==
    IF TruthyChars(self.poetry_lab_url) THEN Return(self, self.poetry_lab_url[1], <<>>)
    ELSE IF self.uri = None THEN Raise(self, UndefinedURI, <<>>)
    ELSE IF split_uri_raises(self.uri) THEN Raise(self, IndexError, <<>>)
    ELSE Return([self EXCEPT !.poetry_lab_url =
                     Some(poetry_lab_url_of(base_url, lang, split_uri_in_author_poem_parts(self.uri)))],
                poetry_lab_url_of(base_url, lang, split_uri_in_author_poem_parts(self.uri)), <<>>)

\* PostdataAuthor.get_metadata(): the serializable mapping of an author, a function
\* of the author entity
author_get_metadata(author) == [metadata_of |-> author]

\* the five keys get_metadata always returns (lines 293-299)
basic_metadata(self, source) ==
    [key \in {"id", "uri", "name", "source", "sourceUri"} |->
        CASE key = "id" -> self.id
          [] key = "uri" -> self.uri
          [] key = "name" -> self.name
          [] key = "source" -> source
          [] key = "sourceUri" -> "POSTDATA Poetry Lab"]

\* with_authors with the bug that the key "authors" is set, to the empty list, also
\* when no author was loaded
with_authors_always(metadata, loaded) ==
    IF loaded.exc = NoExc /\ loaded.value = Some(TRUE)
    THEN metadata @@ ("authors" :> [i \in 1..Len(loaded.self.authors[1]) |->
                                      author_get_metadata(loaded.self.authors[1][i])])
    ELSE metadata @@ ("authors" :> <<>>)

\* the metadata with the key "authors" added when load_authors() returned True
\* (lines 301-305); loaded is the outcome of load_authors()
with_authors(metadata, loaded) ==
    IF loaded.exc = NoExc /\ loaded.value = Some(TRUE)
    THEN metadata @@ ("authors" :> [i \in 1..Len(loaded.self.authors[1]) |->
                                      author_get_metadata(loaded.self.authors[1][i])])
    ELSE metadata

\* get_metadata after get_analysis() has ended as analysed (lines 307-310)
metadata_with_analysis(self, url, loaded, analysed) ==
    IF analysed.exc # NoExc
    THEN Raise(analysed.self, analysed.exc, loaded.queries \o analysed.queries)
    ELSE Return(analysed.self,
                with_authors(basic_metadata(self, url.value[1]), loaded)
                    @@ ("analysis" :> analysed.value[1]),
                loaded.queries \o analysed.queries)

\* get_metadata after load_authors() has ended as loaded (lines 301-310)
metadata_with_authors(self, url, loaded, include_analysis, resps) ==
    IF loaded.exc # NoExc THEN loaded
    ELSE IF ~include_analysis
         THEN Return(loaded.self, with_authors(basic_metadata(self, url.value[1]), loaded),
                     loaded.queries)
    ELSE CHOOSE out \in
            { metadata_with_analysis(self, url, loaded, analysed) :
                analysed \in {get_analysis(loaded.self, resps)} } : TRUE

\* get_metadata after get_poetry_lab_url() has ended as url (lines 293-310)
metadata_with_source(self, url, include_authors, include_analysis, author_resp, resps) ==
    IF url.exc # NoExc THEN url
    ELSE CHOOSE out \in
            { metadata_with_authors(self, url, loaded, include_analysis, resps) :
                loaded \in {IF include_authors THEN load_authors(url.self, author_resp)
                            ELSE Return(url.self, FALSE, <<>>)} } : TRUE

\* get_metadata, the calls it makes in order: get_poetry_lab_url(), load_authors()
\* when include_authors, get_analysis() when include_analysis; the first exception
\* ends it, the fields set before it stay set
get_metadata(self, include_authors, include_analysis, author_resp, resps) ==
    CHOOSE out \in
        { metadata_with_source(self, url, include_authors, include_analysis, author_resp, resps) :
            url \in {get_poetry_lab_url(self, DefaultBaseUrl, DefaultLang)} } : TRUE

\* ------------------------------------------------------------------- state
VARIABLES
    poem,
    call,
    ret,
    queries,
    g_in,
    g_out,
    c_in,
    c_out
\* poem:    the fields of one PostdataPoem instance
\* call:    the method the client called last, [op, args]; NoCall once it has read
\*          the outcome
\* ret:     how that call ended, [exc, value]
\* queries: the queries that call executed against the store, in order, as a
\*          call-counting stub adapter logs them
\* g_in:    the arguments of the grouping engine (GroupSpec)
\* g_out:   its outcome (GroupSpec), None before the call
\* c_in:    the arguments of the constructor (ConstructSpec)
\* c_out:   its outcome (ConstructSpec), None before the call

vars == <<poem, call, ret, queries, g_in, g_out, c_in, c_out>>

\* ------------------------------------------------- what the store may answer
PoemUri == <<"pw", "_", "a", "_", "t">>
DB == Some("stardog")

Titles == {"Soneto", "Romance"}
Years == {"1580", "1603"}
AuthorUris == {"au_a", "au_b"}
ScansionUris == {"sc_1", "sc_2"}
Counts == {PyStr(<<"1", "4">>)}
Schemes == {"abba"}

\* result rows with the single field f, values from S, at most n rows
RowsOf(f, S, n) == {[i \in 1..Len(q) |-> (f :> q[i])] : q \in SeqsUpTo(S, n)}

Answers(rowsets) == {Failed} \cup {Rows(rs) : rs \in rowsets}

TitleAnswers == Answers(RowsOf("title", Titles, MaxRows))
YearAnswers == Answers(RowsOf("year", Years, MaxRows))
AuthorAnswers == Answers(RowsOf("author", AuthorUris, MaxRows))
ScansionAnswers == Answers(RowsOf("scansion", ScansionUris, MaxRows))
CountAnswers == Answers(RowsOf("count", Counts, 1))
SchemeAnswers == Answers(RowsOf("scheme", Schemes, 1))

\* a verse line of the store: stanza number, a count, a pattern (all str)
Line(s, c, p) == [stanza |-> s, count |-> c, pattern |-> p]
\* the poems the store may hold in Spec; the last one has a count that is no number
SamplePoems ==
    { <<>>,
      <<Line(<<"1">>, <<"7">>, <<"+", "-">>)>>,
      <<Line(<<"1">>, <<"7">>, <<"+", "-">>), Line(<<"2">>, <<"1", "1">>, <<"-", "+">>)>>,
      <<Line(<<"1">>, <<"x">>, <<"+", "-">>)>> }

\* the rows a per-line query returns for a poem: stanza key sk, value key vk
CountRows(lines) ==
    [i \in 1..Len(lines) |-> ("StanzaNo" :> PyStr(lines[i].stanza)) @@ ("count" :> PyStr(lines[i].count))]
PatternRows(lines, vk) ==
    [i \in 1..Len(lines) |-> ("StanzaNumber" :> PyStr(lines[i].stanza)) @@ (vk :> PyStr(lines[i].pattern))]

PerLineCountAnswers == Answers({CountRows(l) : l \in SamplePoems})
StressAnswers == Answers({PatternRows(l, "grammaticalStressPattern") : l \in SamplePoems})
MetricalAnswers == Answers({PatternRows(l, "metricalPattern") : l \in SamplePoems})

SyllableTypes == {"metrical", "grammatical", "phonological"}

\* the poems get_analysis is run on in Spec: a two-stanza poem, and one with a count
\* that is no number
AnalysisPoems ==
    { <<Line(<<"1">>, <<"7">>, <<"+", "-">>), Line(<<"2">>, <<"1", "1">>, <<"-", "+">>)>>,
      <<Line(<<"1">>, <<"x">>, <<"+", "-">>)>> }
\* the scansion rows of the store: one URI, or several
AnalysisScansions == { <<[scansion |-> "sc_1"]>>, <<[scansion |-> "sc_2"], [scansion |-> "sc_1"]>> }

\* the store's good answer to the i-th query of get_analysis
AnalysisAnswer(i, scan, lines) ==
    CASE i = 1 -> Rows(scan)
      [] i \in {2, 3, 4, 5, 7, 8} -> Rows(CHOOSE rs \in RowsOf("count", Counts, 1) : rs # <<>>)
      [] i = 6 -> Rows(CHOOSE rs \in RowsOf("scheme", Schemes, 1) : rs # <<>>)
      [] i \in {9, 10, 11} -> Rows(CountRows(lines))
      [] i = 12 -> Rows(PatternRows(lines, "grammaticalStressPattern"))
      [] i = 13 -> Rows(PatternRows(lines, "metricalPattern"))

\* the bad answers to the k-th query: the adapter fails, or (for the queries whose
\* first row is taken) it returns no row
BadAnswers(k) == IF k \in {1, 2, 3, 4, 7, 8} THEN {Failed, Rows(<<>>)} ELSE {Failed}

\* the store's answers to the thirteen queries of get_analysis. Evaluation stops at
\* the first exception, so the answers after it are never asked for: it is enough to
\* choose the position k whose answer is bad (0: none), the others being good
AnalysisAnswers(k, bad, scan, lines) ==
    [i \in 1..Len(AnalysisKeys) |-> IF i = k THEN bad ELSE AnalysisAnswer(i, scan, lines)]

\* ------------------------------------------------------------------ actions
NoCall == [op |-> "", args |-> <<>>]
NoRet == [exc |-> NoExc, value |-> None]
NoConstructIn == [uri |-> None, database |-> None]
NoGroupIn == [rows |-> <<>>, stanza_number_field_key |-> "", value_field_key |-> "", value_datatype |-> ""]

\* the client is between two calls
Idle == call = NoCall

\* a method call that ended as r
Do(op, args, r) ==
    /\ poem' = r.self
    /\ call' = [op |-> op, args |-> args]
    /\ ret' = [exc |-> r.exc, value |-> r.value]
    /\ queries' = r.queries
    /\ UNCHANGED <<g_in, g_out, c_in, c_out>>

Init ==
    /\ \E u \in {None, PoemUri}, db \in {None, DB} : poem = PoemInit(u, db)
    /\ call = NoCall
    /\ ret = NoRet
    /\ queries = <<>>
    /\ g_in = NoGroupIn
    /\ g_out = None
    /\ c_in = NoConstructIn
    /\ c_out = None

GetTitle ==
    /\ Idle
    /\ \E resp \in TitleAnswers : Do("get_title", <<>>, get_title(poem, resp))

GetCreationYear ==
    /\ Idle
    /\ \E resp \in YearAnswers : Do("get_creation_year", <<>>, get_creation_year(poem, resp))

GetAuthorUris ==
    /\ Idle
    /\ \E resp \in AuthorAnswers : Do("get_author_uris", <<>>, get_author_uris(poem, resp))

LoadAuthors ==
    /\ Idle
    /\ \E resp \in AuthorAnswers : Do("load_authors", <<>>, load_authors(poem, resp))

GetAutomaticScansionUri ==
    /\ Idle
    /\ \E resp \in ScansionAnswers :
        Do("get_automatic_scansion_uri", <<>>, get_automatic_scansion_uri(poem, resp))

GetNumberOfStanzas ==
    /\ Idle
    /\ \E resp \in CountAnswers : Do("get_number_of_stanzas", <<>>, get_number_of_stanzas(poem, resp))

GetNumberOfLines ==
    /\ Idle
    /\ \E resp \in CountAnswers : Do("get_number_of_lines", <<>>, get_number_of_lines(poem, resp))

GetNumberOfWords ==
    /\ Idle
    /\ \E resp \in CountAnswers : Do("get_number_of_words", <<>>, get_number_of_words(poem, resp))

GetNumberOfSyllables ==
    /\ Idle
    /\ \E syllable_type \in SyllableTypes, resp \in CountAnswers :
        Do("get_number_of_syllables", <<syllable_type>>,
           get_number_of_syllables(poem, syllable_type, resp))

GetNumberOfLinesInStanzas ==
    /\ Idle
    /\ \E resp \in CountAnswers :
        Do("get_number_of_lines_in_stanzas", <<>>, get_number_of_lines_in_stanzas(poem, resp))

GetRhymeSchemesOfStanzas ==
    /\ Idle
    /\ \E resp \in SchemeAnswers :
        Do("get_rhyme_schemes_of_stanzas", <<>>, get_rhyme_schemes_of_stanzas(poem, resp))

GetNumberOfSyllablesInStanzas ==
    /\ Idle
    /\ \E syllable_type \in SyllableTypes, resp \in PerLineCountAnswers :
        Do("get_number_of_syllables_in_stanzas", <<syllable_type>>,
           get_number_of_syllables_in_stanzas(poem, syllable_type, resp))

GetNumberOfWordsInStanzas ==
    /\ Idle
    /\ \E resp \in PerLineCountAnswers :
        Do("get_number_of_words_in_stanzas", <<>>, get_number_of_words_in_stanzas(poem, resp))

GetGrammaticalStressPatternsInStanzas ==
    /\ Idle
    /\ \E resp \in StressAnswers :
        Do("get_grammatical_stress_patterns_in_stanzas", <<>>,
           get_grammatical_stress_patterns_in_stanzas(poem, resp))

GetMetricalPatternsInStanzas ==
    /\ Idle
    /\ \E resp \in MetricalAnswers :
        Do("get_metrical_patterns_in_stanzas", <<>>, get_metrical_patterns_in_stanzas(poem, resp))

GetAnalysis ==
    /\ Idle
    /\ \E k \in 0..Len(AnalysisKeys), scan \in AnalysisScansions, lines \in AnalysisPoems :
       \E bad \in BadAnswers(k) :
            Do("get_analysis", <<>>, get_analysis(poem, AnalysisAnswers(k, bad, scan, lines)))

\* the arguments get_poetry_lab_url is called with: the defaults, or others
OtherBaseUrl == <<"http://lab.test">>
PoetryLabArgs == {<<DefaultBaseUrl, DefaultLang>>, <<OtherBaseUrl, <<"es">>>>}

GetPoetryLabUrl ==
    /\ Idle
    /\ \E a \in PoetryLabArgs : Do("get_poetry_lab_url", a, get_poetry_lab_url(poem, a[1], a[2]))

\* the store's answers during get_metadata: to the author query (when include_authors)
\* and to the queries of get_analysis (when include_analysis); a query that is not
\* asked has no answer to choose
MetadataAuthorAnswers(include_authors) ==
    IF include_authors
    THEN {Failed, Rows(<<>>), Rows(<<[author |-> "au_a"]>>),
          Rows(<<[author |-> "au_b"], [author |-> "au_a"]>>)}
    ELSE {Failed}
MetadataAnalysisAnswers(include_analysis) ==
    LET scan == CHOOSE s \in AnalysisScansions : Len(s) = 1
        lines == CHOOSE l \in AnalysisPoems : Len(l) = 2
    IN  IF include_analysis
        THEN {AnalysisAnswers(0, Failed, scan, lines), AnalysisAnswers(5, Failed, scan, lines)}
        ELSE {AnalysisAnswers(1, Failed, scan, lines)}

GetMetadata ==
    /\ Idle
    /\ \E include_authors \in BOOLEAN, include_analysis \in BOOLEAN :
       \E author_resp \in MetadataAuthorAnswers(include_authors),
          resps \in MetadataAnalysisAnswers(include_analysis) :
            Do("get_metadata", <<include_authors, include_analysis>>,
               get_metadata(poem, include_authors, include_analysis, author_resp, resps))

\* the client has read the outcome of its call and the stub adapter's log is
\* cleared; the instance is kept for the next call
ResultRead ==
    /\ call # NoCall
    /\ call' = NoCall
    /\ ret' = NoRet
    /\ queries' = <<>>
    /\ UNCHANGED <<poem, g_in, g_out, c_in, c_out>>

Next ==
    \/ ResultRead
    \/ GetTitle
    \/ GetCreationYear
    \/ GetAuthorUris
    \/ LoadAuthors
    \/ GetAutomaticScansionUri
    \/ GetNumberOfStanzas
    \/ GetNumberOfLines
    \/ GetNumberOfWords
    \/ GetNumberOfSyllables
    \/ GetNumberOfLinesInStanzas
    \/ GetRhymeSchemesOfStanzas
    \/ GetNumberOfSyllablesInStanzas
    \/ GetNumberOfWordsInStanzas
    \/ GetGrammaticalStressPatternsInStanzas
    \/ GetMetricalPatternsInStanzas
    \/ GetAnalysis
    \/ GetPoetryLabUrl
    \/ GetMetadata

Spec == Init /\ [][Next]_vars

\* ---------------------------------------------- the grouping engine on its own
\* the stanza numbers and values of the rows handed to the engine (all str, as
\* simplify() leaves them); "+-" is no number
StanzaNos == {<<"0">>, <<"1">>, <<"2">>}
GroupValues == {<<"7">>, <<"1", "1">>, <<"+", "-">>}
Datatypes == {"int", "Integer", "str", "float"}
\* (stanza_number_field_key, value_field_key) of the call sites
GroupKeys == {<<"StanzaNo", "count">>, <<"StanzaNumber", "metricalPattern">>}

GroupInputs ==
    { [rows |-> [i \in 1..Len(q) |-> (keys[1] :> PyStr(q[i][1])) @@ (keys[2] :> PyStr(q[i][2]))],
       stanza_number_field_key |-> keys[1],
       value_field_key |-> keys[2],
       value_datatype |-> dt] :
        q \in SeqsUpTo(StanzaNos \X GroupValues, MaxGroupRows), keys \in GroupKeys, dt \in Datatypes }

GroupInit ==
    /\ poem = PoemInit(None, None)
    /\ call = NoCall
    /\ ret = NoRet
    /\ queries = <<>>
    /\ g_in \in GroupInputs
    /\ g_out = None
    /\ c_in = NoConstructIn
    /\ c_out = None

GroupFeatureByStanzas ==
    /\ g_out = None
    /\ g_out' = Some(group_feature_by_stanzas(g_in.rows, g_in.stanza_number_field_key,
                                              g_in.value_field_key, g_in.value_datatype))
    /\ UNCHANGED <<poem, call, ret, queries, g_in, c_in, c_out>>

GroupNext == GroupFeatureByStanzas

GroupSpec == GroupInit /\ [][GroupNext]_vars

\* ------------------------------------------------ the constructor on its own
\* the URIs handed to the constructor: "_" and two other characters
UriChars == {"a", "b", "_"}
ConstructInputs ==
    {[uri |-> u, database |-> db] : u \in SeqsUpTo(UriChars, MaxUriLen), db \in {None, DB}}

ConstructInit ==
    /\ poem = PoemInit(None, None)
    /\ call = NoCall
    /\ ret = NoRet
    /\ queries = <<>>
    /\ g_in = NoGroupIn
    /\ g_out = None
    /\ c_in \in ConstructInputs
    /\ c_out = None

Construct ==
    /\ c_out = None
    /\ c_out' = Some(construct(c_in.uri, c_in.database))
    /\ UNCHANGED <<poem, call, ret, queries, g_in, g_out, c_in>>

ConstructNext == Construct

ConstructSpec == ConstructInit /\ [][ConstructNext]_vars

\* ------------------------------------------------- claims: grouping engine
\* the engine has returned a list of stanzas
GroupReturned == g_out # None /\ g_out[1].exc = NoExc
GroupStanzas == g_out[1].value[1]

\* the stanza number and the (cast) value of the i-th input row
InStanza(i) == g_in.rows[i][g_in.stanza_number_field_key]
InValue(i) == cast_value(g_in.rows[i][g_in.value_field_key], g_in.value_datatype)
InValues == [i \in 1..Len(g_in.rows) |-> InValue(i)]
PositiveStanzas == \A i \in 1..Len(g_in.rows) : int(InStanza(i)) > 0

RECURSIVE Flatten(_)
Flatten(ss) == IF ss = <<>> THEN <<>> ELSE Head(ss) \o Flatten(Tail(ss))

\* the maximal runs of consecutive rows with equal stanza number
RunStarts == {i \in 1..Len(g_in.rows) : i = 1 \/ InStanza(i) # InStanza(i - 1)}
RunStart(k) == CHOOSE i \in RunStarts : Cardinality({j \in RunStarts : j <= i}) = k
RunEnd(k) == IF k = Cardinality(RunStarts) THEN Len(g_in.rows) ELSE RunStart(k + 1) - 1
Runs == [k \in 1..Cardinality(RunStarts) |->
            [j \in 1..(RunEnd(k) - RunStart(k) + 1) |-> InValue(RunStart(k) + j - 1)]]

\* C3 as stated: whatever the rows, the output stanzas concatenated in order are
\* the input values in their order
C3_NothingLostAnyInput == GroupReturned => Flatten(GroupStanzas) = InValues

\* C3 amended: when every stanza number is positive, the output stanzas concatenated
\* in order are the input values in their order (nothing lost, duplicated, reordered)
C3_NothingLost == (GroupReturned /\ PositiveStanzas) => Flatten(GroupStanzas) = InValues

\* three rows in two stanzas, grouped
C3_Witness ==
    /\ GroupReturned
    /\ PositiveStanzas
    /\ Len(g_in.rows) = 3
    /\ Len(GroupStanzas) = 2
    /\ g_in.value_datatype = "str"

\* C4 as stated: for every non-empty input the output is the partition into maximal
\* runs of equal stanza number
C4_MaximalRunsAnyInput == (GroupReturned /\ g_in.rows # <<>>) => GroupStanzas = Runs

\* C4 amended: for every non-empty input whose stanza numbers are positive, the
\* output is the partition into maximal runs of equal stanza number, in run order
C4_MaximalRuns == (GroupReturned /\ g_in.rows # <<>> /\ PositiveStanzas) => GroupStanzas = Runs

\* rows of stanzas 1, 2, 1: three runs, the stanza number coming back opens a new one
C4_Witness ==
    /\ GroupReturned
    /\ Len(g_in.rows) = 3
    /\ InStanza(1) = PyStr(<<"1">>) /\ InStanza(2) = PyStr(<<"2">>) /\ InStanza(3) = PyStr(<<"1">>)
    /\ Len(GroupStanzas) = 3

\* C5: the empty input gives exactly one stanza, which is empty, and every output
\* holds at least one stanza
C5_EmptyInputOneStanza ==
    GroupReturned => /\ Len(GroupStanzas) >= 1
                     /\ (g_in.rows = <<>> => GroupStanzas = << <<>> >>)

\* the engine has run on the empty input
C5_Witness == GroupReturned /\ g_in.rows = <<>> /\ GroupStanzas = << <<>> >>

\* ------------------------------------------------------ claims: the poem
\* the call just made executed one query, which the store answered with rows
OneQueryAnswered(op) == call.op = op /\ Len(queries) = 1 /\ ~queries[1].answer.fail
AnsweredRows == queries[1].answer.rows

\* C1: once get_analysis() has succeeded, the record is cached, and every later
\* get_analysis() returns that record and executes no query
C1_AnalysisCached ==
    /\ [](call.op = "get_analysis" /\ ret.exc = NoExc =>
            TruthyDict(poem.automatic_analysis) /\ ret.value = poem.automatic_analysis)
    /\ [][TruthyDict(poem.automatic_analysis) /\ call'.op = "get_analysis" =>
            /\ ret'.exc = NoExc
            /\ ret'.value = poem.automatic_analysis
            /\ queries' = <<>>
            /\ poem' = poem]_vars

\* a get_analysis() answered from the cache
C1_Witness ==
    /\ call.op = "get_analysis"
    /\ ret.exc = NoExc
    /\ queries = <<>>
    /\ ret.value = poem.automatic_analysis

\* C2: the cached analysis is absent or holds all thirteen keys; a get_analysis()
\* one of whose queries failed raises, and one that raised has cached nothing
C2_AtomicAnalysis ==
    /\ poem.automatic_analysis # None =>
          /\ DOMAIN poem.automatic_analysis[1] = {AnalysisKeys[i] : i \in 1..Len(AnalysisKeys)}
          /\ Cardinality(DOMAIN poem.automatic_analysis[1]) = 13
    /\ call.op = "get_analysis" =>
          /\ (\E i \in 1..Len(queries) : queries[i].answer.fail) => ret.exc = QueryError
          /\ ret.exc # NoExc => poem.automatic_analysis = None

\* the last of the thirteen queries failed after twelve had succeeded
C2_Witness ==
    /\ call.op = "get_analysis"
    /\ Len(queries) = 13
    /\ queries[13].answer.fail
    /\ ret.exc = QueryError
    /\ poem.automatic_analysis = None

C7_ZeroTitleRowsAbsent ==
    OneQueryAnswered("get_title") =>
        /\ Len(AnsweredRows) = 0 => ret.exc = NoExc /\ ret.value = Some(None)
        /\ ret.exc = MultipleTitles => Len(AnsweredRows) > 1

\* C8: load_authors() whose author query was answered: no row gives False without
\* error and no authors; n >= 1 rows give True and n author entities, one per URI
\* in result order, each with the poem's database
C8_LoadAuthors ==
    OneQueryAnswered("load_authors") =>
        /\ ret.exc = NoExc
        /\ Len(AnsweredRows) = 0 =>
              ret.value = Some(FALSE) /\ poem.authors = None /\ poem.author_uris = None
        /\ Len(AnsweredRows) >= 1 =>
              /\ ret.value = Some(TRUE)
              /\ poem.authors # None
              /\ Len(poem.authors[1]) = Len(AnsweredRows)
              /\ \A i \in 1..Len(AnsweredRows) :
                    poem.authors[1][i] = PostdataAuthor(AnsweredRows[i].author, poem.database)

\* two different author URIs were loaded
C8_Witness ==
    /\ OneQueryAnswered("load_authors")
    /\ Len(AnsweredRows) = 2
    /\ AnsweredRows[1] # AnsweredRows[2]
    /\ ret.value = Some(TRUE)

\* C9: get_automatic_scansion_uri() returns the first of the URIs the store gives,
\* however many, and fails (IndexError) on no row; a get_analysis() whose scansion
\* query gave no row raises after that one query and caches nothing, and one that
\* succeeded records the first URI as its source
C9_FirstScansionUri ==
    /\ OneQueryAnswered("get_automatic_scansion_uri") =>
          /\ Len(AnsweredRows) >= 1 =>
                ret.exc = NoExc /\ ret.value = Some(AnsweredRows[1].scansion)
          /\ Len(AnsweredRows) = 0 => ret.exc = IndexError
    /\ (call.op = "get_analysis" /\ queries # <<>> /\ ~queries[1].answer.fail) =>
          /\ Len(AnsweredRows) = 0 =>
                ret.exc = IndexError /\ Len(queries) = 1 /\ poem.automatic_analysis = None
          /\ ret.exc = NoExc => ret.value[1]["source"] = [uri |-> AnsweredRows[1].scansion]

\* the store gave two scansion URIs and the first was returned
C9_Witness ==
    /\ OneQueryAnswered("get_automatic_scansion_uri")
    /\ Len(AnsweredRows) = 2
    /\ AnsweredRows[1] # AnsweredRows[2]
    /\ ret.exc = NoExc

\* the operations that issue queries
QueryOps ==
    {"get_title", "get_creation_year", "get_author_uris", "load_authors",
     "get_automatic_scansion_uri", "get_number_of_stanzas", "get_number_of_lines",
     "get_number_of_words", "get_number_of_syllables", "get_number_of_lines_in_stanzas",
     "get_rhyme_schemes_of_stanzas", "get_number_of_syllables_in_stanzas",
     "get_number_of_words_in_stanzas", "get_grammatical_stress_patterns_in_stanzas",
     "get_metrical_patterns_in_stanzas", "get_analysis"}

\* a call of a query-issuing operation on an instance lacking the database fails
\* with the no-database error, on one with a database but no URI with the
\* missing-URI error; no query is executed and the instance is left as it was
FailsUnconnected ==
    /\ poem.database = None => ret'.exc = NoDatabaseConnection /\ queries' = <<>> /\ poem' = poem
    /\ (poem.database # None /\ poem.uri = None) =>
          ret'.exc = MissingURI /\ queries' = <<>> /\ poem' = poem

\* C10 as stated: every call of a query-issuing operation
C10_UnconnectedAnyCall == [][call'.op \in QueryOps => FailsUnconnected]_vars

\* C10 amended: every call of a query-issuing operation, the syllable accessors
\* being called with a syllable type of "metrical" or "grammatical"
C10_Unconnected ==
    [][(call'.op \in QueryOps /\ call'.args \in {<<>>, <<"metrical">>, <<"grammatical">>})
          => FailsUnconnected]_vars

\* get_analysis() was called on a poem with a database and no URI
C10_Witness ==
    /\ call.op = "get_analysis"
    /\ poem.database # None
    /\ poem.uri = None
    /\ ret.exc = MissingURI
    /\ queries = <<>>

\* the two accessors that take a syllable type
SyllableOps == {"get_number_of_syllables", "get_number_of_syllables_in_stanzas"}
ValidSyllableTypes == {"metrical", "grammatical"}

\* C11: a call of a syllable accessor with a syllable type other than "metrical" or
\* "grammatical" fails with the invalid-syllable-type error, executes no query and
\* leaves the instance as it was, whether or not database and URI are set; with a
\* valid type, database and URI it executes one query, bound with exactly two
\* parameters: the poem URI and the predicate of that type
C11_SyllableType ==
    [][call'.op \in SyllableOps =>
          /\ call'.args[1] \notin ValidSyllableTypes =>
                ret'.exc = InvalidSyllableType /\ queries' = <<>> /\ poem' = poem
          /\ (call'.args[1] \in ValidSyllableTypes /\ poem.database # None /\ poem.uri # None) =>
                /\ Len(queries') = 1
                /\ Len(queries'[1].params) = 2
                /\ queries'[1].params[1] = poem.uri
                /\ call'.args[1] = "metrical" =>
                      queries'[1].params[2] = <<"pdp:hasMetricalSyllable">>
                /\ call'.args[1] = "grammatical" =>
                      queries'[1].params[2] = <<"pdp:hasGrammaticalSyllable">>]_vars

\* an invalid syllable type on an instance without database
C11_Witness ==
    /\ call.op = "get_number_of_syllables_in_stanzas"
    /\ call.args = <<"phonological">>
    /\ poem.database = None
    /\ ret.exc = InvalidSyllableType
    /\ queries = <<>>

\* the value of the i-th input row as the store gave it (a str), and its integer form
RawValue(i) == g_in.rows[i][g_in.value_field_key]
IntForm(i) == PyInt(ParseInt(RawValue(i).s))

\* the i-th smallest member of a set of row indices
NthOf(S, k) == CHOOSE i \in S : Cardinality({j \in S : j <= i}) = k

\* the output values are, in order, those of some of the rows, each an integer
\* when the flag is one of IntFlags and the row's str otherwise
OutputCoerced(IntFlags) ==
    \E S \in SUBSET (1..Len(g_in.rows)) :
        Flatten(GroupStanzas) =
            [k \in 1..Cardinality(S) |->
                IF g_in.value_datatype \in IntFlags THEN IntForm(NthOf(S, k))
                ELSE RawValue(NthOf(S, k))]

C13_IdNameStable ==
    /\ [](\A db \in {None, DB} :
            /\ poem.id = PoemInit(poem.uri, db).id
            /\ poem.name = PoemInit(poem.uri, db).name)
    /\ [][poem'.id = poem.id /\ poem'.name = poem.name /\ poem'.uri = poem.uri]_vars

\* title, authors and analysis have been resolved, and a later call has failed;
\* id and name are still those of the URI
C13_Witness ==
    /\ poem.title # None
    /\ poem.authors # None
    /\ poem.automatic_analysis # None
    /\ ret.exc # NoExc
    /\ poem.id = Some(shorthash(PoemUri))
    /\ poem.name = Some(<<"a", "_", "t">>)

\* the positions of "_" in the URI handed to the constructor
Underscores == {i \in 1..Len(c_in.uri) : c_in.uri[i] = "_"}
FirstUnderscore == CHOOSE i \in Underscores : \A j \in Underscores : i <= j
SecondUnderscore == CHOOSE i \in Underscores \ {FirstUnderscore} : \A j \in Underscores : j <= i

\* C14: a URI of exactly three "_"-separated segments (two "_") is accepted, and the
\* name is author-slug + "_" + title-slug, which is the URI after its first "_"
C14_NameOfUri ==
    (c_out # None /\ Cardinality(Underscores) = 2) =>
        /\ c_out[1].exc = NoExc
        /\ c_out[1].self[1].name =
              Some(SubSeq(c_in.uri, FirstUnderscore + 1, SecondUnderscore - 1) \o <<"_">>
                   \o SubSeq(c_in.uri, SecondUnderscore + 1, Len(c_in.uri)))
        /\ c_out[1].self[1].name = Some(SubSeq(c_in.uri, FirstUnderscore + 1, Len(c_in.uri)))

\* the poem of the URI a_b_a is named b_a
C14_Witness ==
    /\ c_out # None
    /\ c_in.uri = <<"a", "_", "b", "_", "a">>
    /\ c_out[1].exc = NoExc
    /\ c_out[1].self[1].name = Some(<<"b", "_", "a">>)

\* the thirteen queries of get_analysis in the order claimed, each with the
\* parameters bound after the poem URI
AnalysisQueryOrder ==
    << <<"PoemAutomaticScansionUri", <<>>>>,
       <<"PoemCountStanzas", <<>>>>,
       <<"PoemCountLines", <<>>>>,
       <<"PoemCountWords", <<>>>>,
       <<"PoemCountLinesInStanzas", <<>>>>,
       <<"PoemRhymeSchemesOfStanzas", <<>>>>,
       <<"PoemCountSyllables", << <<"pdp:hasMetricalSyllable">> >> >>,
       <<"PoemCountSyllables", << <<"pdp:hasGrammaticalSyllable">> >> >>,
       <<"PoemCountSyllablesInStanzas", << <<"pdp:hasMetricalSyllable">> >> >>,
       <<"PoemCountSyllablesInStanzas", << <<"pdp:hasGrammaticalSyllable">> >> >>,
       <<"PoemCountWordsInStanzas", <<>>>>,
       <<"PoemGrammaticalStressPatternsInStanzas", <<>>>>,
       <<"PoemMetricalPatternsInStanzas", <<>>>> >>

\* C15: the queries a get_analysis() executed are the first ones of the claimed
\* order, each once; a get_analysis() that succeeded on an instance without cached
\* record executed all thirteen; a query the adapter failed is the last one executed
C15_AnalysisQueries ==
    /\ [](call.op = "get_analysis" =>
            /\ Len(queries) <= 13
            /\ \A i \in 1..Len(queries) :
                  /\ queries[i].query = AnalysisQueryOrder[i][1]
                  /\ queries[i].params = <<poem.uri>> \o AnalysisQueryOrder[i][2]
                  /\ queries[i].answer.fail => (i = Len(queries) /\ ret.exc = QueryError))
    /\ [][(poem.automatic_analysis = None /\ call'.op = "get_analysis" /\ ret'.exc = NoExc)
             => Len(queries') = 13]_vars

\* a first get_analysis() that succeeded, with its thirteen queries
C15_Witness ==
    /\ call.op = "get_analysis"
    /\ ret.exc = NoExc
    /\ Len(queries) = 13
    /\ \A i \in 1..13 : ~queries[i].answer.fail

\* the partitioning of a list of stanzas: the length of each stanza, in order
Shape(stanzas) == [k \in 1..Len(stanzas) |-> Len(stanzas[k])]

\* the rows with the stanza numbers of the input in the same order, but with other
\* field names and one and the same value in every row
SameStanzasRows ==
    [i \in 1..Len(g_in.rows) |->
        ("StanzaNumber" :> InStanza(i)) @@ ("grammaticalStressPattern" :> PyStr(<<"-">>))]
SameStanzasOutput ==
    group_feature_by_stanzas(SameStanzasRows, "StanzaNumber", "grammaticalStressPattern", "str")

\* C16: the output for any rows, value field names and datatype flag has the number
\* of stanzas and the stanza lengths of the output for the rows that keep only the
\* stanza-number sequence; so any two inputs with the same stanza-number sequence
\* are partitioned alike
C16_PartitionByStanzaNumbers ==
    GroupReturned =>
        /\ SameStanzasOutput.exc = NoExc
        /\ Shape(GroupStanzas) = Shape(SameStanzasOutput.value[1])

\* three rows of different integer values in stanzas 1, 1, 2 are partitioned 2 + 1
C16_Witness ==
    /\ GroupReturned
    /\ g_in.value_datatype = "int"
    /\ g_in.stanza_number_field_key = "StanzaNo"
    /\ Len(g_in.rows) = 3
    /\ InStanza(1) = PyStr(<<"1">>) /\ InStanza(2) = PyStr(<<"1">>) /\ InStanza(3) = PyStr(<<"2">>)
    /\ InValue(1) # InValue(2)
    /\ Shape(GroupStanzas) = <<2, 1>>

\* the instance can reach the store
Connected == poem.database # None /\ poem.uri # None

\* C17: get_creation_year() and get_author_uris() on an instance that holds a
\* non-empty value return it and execute no query; on an instance that holds None
\* (nothing resolved yet, or resolved to no row) they execute their query, return
\* what the store answers now, and no row leaves None stored
C17_MemoizesNonEmptyOnly ==
    [][/\ (call'.op = "get_creation_year" /\ poem.creation_year # None) =>
              /\ queries' = <<>>
              /\ ret'.exc = NoExc
              /\ ret'.value = Some(poem.creation_year)
              /\ poem' = poem
       /\ (call'.op = "get_author_uris" /\ poem.author_uris # None) =>
              /\ queries' = <<>>
              /\ ret'.exc = NoExc
              /\ ret'.value = Some(poem.author_uris)
              /\ poem' = poem
       /\ (call'.op = "get_creation_year" /\ poem.creation_year = None /\ Connected) =>
              /\ Len(queries') = 1
              /\ queries'[1].query = "PoemCreationYear"
              /\ (~queries'[1].answer.fail /\ Len(queries'[1].answer.rows) = 0) =>
                    ret'.value = Some(None) /\ poem'.creation_year = None
              /\ (~queries'[1].answer.fail /\ Len(queries'[1].answer.rows) = 1) =>
                    ret'.value = Some(Some(queries'[1].answer.rows[1].year))
       /\ (call'.op = "get_author_uris" /\ poem.author_uris = None /\ Connected) =>
              /\ Len(queries') = 1
              /\ queries'[1].query = "PoemAuthorUris"
              /\ (~queries'[1].answer.fail /\ Len(queries'[1].answer.rows) = 0) =>
                    ret'.value = Some(None) /\ poem'.author_uris = None
              /\ (~queries'[1].answer.fail /\ Len(queries'[1].answer.rows) >= 1) =>
                    ret'.value = Some(Some([i \in 1..Len(queries'[1].answer.rows) |->
                                              queries'[1].answer.rows[i].author]))]_vars

\* get_author_uris() answered from the stored URIs, without a query
C17_Witness ==
    /\ call.op = "get_author_uris"
    /\ queries = <<>>
    /\ ret.exc = NoExc
    /\ poem.author_uris # None
    /\ ret.value = Some(poem.author_uris)

BasicKeys == {"id", "uri", "name", "source", "sourceUri"}

\* C18: get_metadata(include_authors, include_analysis) on a poem with a URI. With
\* both flags false it succeeds without a query and returns exactly the five basic
\* keys. Whenever it returns, the basic keys are there, "analysis" is there exactly
\* when include_analysis, "authors" exactly when include_authors and the poem has
\* an author URI, and then it holds the metadata of one author per URI, in order
C18_MetadataKeys ==
    /\ [][(call'.op = "get_metadata" /\ call'.args = <<FALSE, FALSE>> /\ poem.uri # None) =>
             /\ ret'.exc = NoExc
             /\ queries' = <<>>
             /\ DOMAIN ret'.value[1] = BasicKeys]_vars
    /\ []((call.op = "get_metadata" /\ ret.exc = NoExc) =>
             /\ poem.uri # None
             /\ BasicKeys \subseteq DOMAIN ret.value[1]
             /\ DOMAIN ret.value[1] \subseteq BasicKeys \cup {"authors", "analysis"}
             /\ ret.value[1]["id"] = poem.id
             /\ ret.value[1]["uri"] = poem.uri
             /\ ret.value[1]["name"] = poem.name
             /\ "analysis" \in DOMAIN ret.value[1] <=> call.args[2]
             /\ "authors" \in DOMAIN ret.value[1] <=> (call.args[1] /\ TruthyList(poem.author_uris))
             /\ "authors" \in DOMAIN ret.value[1] =>
                   /\ Len(ret.value[1]["authors"]) = Len(poem.author_uris[1])
                   /\ \A i \in 1..Len(poem.author_uris[1]) :
                         ret.value[1]["authors"][i] =
                             author_get_metadata(PostdataAuthor(poem.author_uris[1][i], poem.database)))

\* the metadata with two authors and the analysis
C18_Witness ==
    /\ call.op = "get_metadata"
    /\ call.args = <<TRUE, TRUE>>
    /\ ret.exc = NoExc
    /\ "analysis" \in DOMAIN ret.value[1]
    /\ "authors" \in DOMAIN ret.value[1]
    /\ Len(ret.value[1]["authors"]) = 2

\* the URL get_poetry_lab_url builds for the instance from the default arguments
DefaultPoetryLabUrl ==
    DefaultBaseUrl \o <<"/", "en", "/author/">> \o split(poem.uri, "_")[2]
                   \o <<"/poetic-work/">> \o split(poem.uri, "_")[3]

\* C19: a get_poetry_lab_url() or get_metadata() that has succeeded leaves a URL
\* stored; a stored URL is never replaced; get_poetry_lab_url() on an instance with
\* a stored URL returns it whatever its arguments; the URL get_metadata() stores is
\* the one of the default base URL and language "en", and its "source" is the
\* stored URL
C19_PoetryLabUrlMemoized ==
    /\ []((call.op \in {"get_poetry_lab_url", "get_metadata"} /\ ret.exc = NoExc) =>
             poem.poetry_lab_url # None)
    /\ []((call.op = "get_metadata" /\ ret.exc = NoExc) =>
             ret.value[1]["source"] = poem.poetry_lab_url[1])
    /\ [][poem.poetry_lab_url # None => poem'.poetry_lab_url = poem.poetry_lab_url]_vars
    /\ [][(call'.op = "get_poetry_lab_url" /\ poem.poetry_lab_url # None) =>
             /\ ret'.exc = NoExc
             /\ ret'.value = poem.poetry_lab_url
             /\ poem' = poem]_vars
    /\ [][(call'.op = "get_metadata" /\ poem.poetry_lab_url = None /\ poem.uri # None) =>
             poem'.poetry_lab_url = Some(DefaultPoetryLabUrl)]_vars

\* get_poetry_lab_url() called with another base URL and language "es" returned the
\* URL of the default base URL and "en" stored before
C19_Witness ==
    /\ call.op = "get_poetry_lab_url"
    /\ call.args = <<OtherBaseUrl, <<"es">>>>
    /\ ret.exc = NoExc
    /\ ret.value = Some(DefaultPoetryLabUrl)

====
